---- MODULE Spec2Model ----
(***************************************************************************)
(* A model of the blink-middleware live-view client:                       *)
(*   pkg/liveview/liveview.go        Client.Connect / Disconnect           *)
(*   internal/adapters/blink         InitiateLiveView, PollCommand,        *)
(*                                   StopCommand, ParseConnectionString    *)
(*   internal/protocol/blink         GenerateAuthFrames, SendAuthFrames,   *)
(*                                   SendPing                              *)
(*   internal/transport              Stream                                *)
(*                                                                         *)
(* The client state is guarded by no lock, so every access to it is a      *)
(* separate step of the goroutine that performs it.  A Go panic in any     *)
(* goroutine (nil pointer dereference, call of a nil func, NewTicker with  *)
(* a non-positive interval) ends the whole process: `crashed`.             *)
(*                                                                         *)
(* Specifications:                                                         *)
(*   Spec, FairSpec      the client with its callers and goroutines        *)
(*   StreamSpec          one call of transport.Stream, with a clock        *)
(*   SessionSpec         that call beside the session's PollCommand        *)
(*   PollSpec            the same, the poll response fixed for the run     *)
(*   PureSpec            StopCommand, ParseConnectionString and            *)
(*                       GenerateAuthFrames on their own                   *)
(***************************************************************************)
EXTENDS Integers, Sequences, FiniteSets, TLC

\* ------------------------------------------------------------------ bounds
\* Number of goroutines of the embedding program that call Connect/Disconnect.
NumCallers == 1
\* Number of live-view sessions the vendor API grants (successful starts).
MaxSessions == 2

\* ------------------------------------------------------- program constants
HTTP_OK == 200
STOPPED_CODE == 902
REQUIRED_PORT == <<"4", "4", "3">>
FIXED_READ_TIMEOUT == 2
CONNECT_TIMEOUT == 15

Callers == {<<"caller", i>> : i \in 1..NumCallers}
Sessions == 1..MaxSessions
Goroutines == {<<"stream", s>> : s \in Sessions}
Threads == Callers \cup Goroutines

\* ------------------------------------------------------------ pure helpers
Zeros(n) == [i \in 1..n |-> 0]

\* strings.Split(s, sep) for a one-character separator: always at least one
\* element, empty pieces kept.
RECURSIVE SplitFrom(_, _, _, _)
SplitFrom(s, sep, i, cur) ==
    IF i > Len(s) THEN <<cur>>
    ELSE IF s[i] = sep THEN <<cur>> \o SplitFrom(s, sep, i + 1, <<>>)
    ELSE SplitFrom(s, sep, i + 1, Append(cur, s[i]))

Split(s, sep) == SplitFrom(s, sep, 1, <<>>)

Digits == <<"0", "1", "2", "3", "4", "5", "6", "7", "8", "9">>
IsDigit(c) == \E d \in 1..10 : Digits[d] = c
DigitVal(c) == (CHOOSE d \in 1..10 : Digits[d] = c) - 1

RECURSIVE DigitsVal(_)
DigitsVal(s) ==
    IF s = <<>> THEN 0 ELSE 10 * DigitsVal(SubSeq(s, 1, Len(s) - 1)) + DigitVal(s[Len(s)])

\* strconv.Atoi: optional sign, then one or more decimal digits.
Atoi(s) ==
    LET signed == s # <<>> /\ s[1] \in {"+", "-"}
        body == IF signed THEN Tail(s) ELSE s
    IN IF body = <<>> \/ \E i \in 1..Len(body) : ~IsDigit(body[i])
       THEN [err |-> TRUE, val |-> 0]
       ELSE [err |-> FALSE,
             val |-> IF signed /\ s[1] = "-" THEN 0 - DigitsVal(body) ELSE DigitsVal(body)]

\* The connection string after url.Parse: a record
\*   [bad: url.Parse failed, host, port, path, client_id: its query parameter]
\* whose host, port, path and client_id are sequences of characters.
NoDescriptor == [err |-> "none", host |-> <<>>, port |-> <<>>, clientId |-> 0, connId |-> <<>>]

ParseConnectionString(server) ==
    LET pathSegments == Split(server.path, "/")
        connID == Split(pathSegments[Len(pathSegments)], "_")
        clientID == Atoi(server.client_id)
    IN IF server.bad THEN [NoDescriptor EXCEPT !.err = "parse"]
       ELSE IF server.host = <<>> THEN [NoDescriptor EXCEPT !.err = "invalid host"]
       ELSE IF server.port # REQUIRED_PORT THEN [NoDescriptor EXCEPT !.err = "unexpected port"]
       ELSE IF Len(pathSegments) = 0 THEN [NoDescriptor EXCEPT !.err = "invalid path"]
       ELSE IF Len(connID) < 2 \/ connID[1] = <<>>
            THEN [NoDescriptor EXCEPT !.err = "invalid connection ID"]
       ELSE IF clientID.val = 0 \/ clientID.err
            THEN [NoDescriptor EXCEPT !.err = "invalid client ID"]
       ELSE [err |-> "nil", host |-> server.host, port |-> server.port,
             clientId |-> clientID.val, connId |-> connID[1]]

\* []byte(s) for the characters the connection ids of the model use.
ByteOf(c) ==
    CASE c = "A" -> 65 [] c = "B" -> 66 [] c = "C" -> 67 [] c = "x" -> 120
      [] c = "-" -> 45 [] OTHER -> 63

Bytes(s) == [i \in 1..Len(s) |-> ByteOf(s[i])]

\* Byte k (0 = least significant) of the 32-bit two's complement of n.
Uint32Byte(n, k) ==
    LET sh == 256 ^ k
    IN IF n >= 0 THEN (n \div sh) % 256 ELSE 255 - ((((0 - n) - 1) \div sh) % 256)

\* PutUint32BE with the bytes in little-endian order.
PutUint32BE_LittleEndian(n) ==
    <<Uint32Byte(n, 0), Uint32Byte(n, 1), Uint32Byte(n, 2), Uint32Byte(n, 3)>>

\* binary.BigEndian.PutUint32(b, uint32(n))
PutUint32BE(n) == <<Uint32Byte(n, 3), Uint32Byte(n, 2), Uint32Byte(n, 1), Uint32Byte(n, 0)>>

GenerateAuthFrames(connectionId, clientId) ==
    << <<0, 0, 0, 40>> \o Zeros(20),
       PutUint32BE(clientId),
       <<1, 8>> \o Zeros(70) \o <<0, 16>>,
       Bytes(connectionId),
       <<0, 0, 0, 1, 10>> \o Zeros(8) >>

FRAMES_KEEPALIVE ==
    <<18, 0, 0, 3, 232, 0, 0, 0, 24>> \o Zeros(21) \o <<1, 0, 0>>

\* --------------------------------------------------------- vendor API I/O
\* What an HTTP call can come back with: a transport error (no response at
\* all), a status, a body that may not decode, and the decoded fields.
GoodServer ==
    [bad |-> FALSE, host |-> <<"h">>, port |-> <<"4", "4", "3">>,
     path |-> <<"/", "l", "/", "A", "B", "C", "_", "1">>, client_id |-> <<"5", "5">>]

BadPortServer == [GoodServer EXCEPT !.port = <<"8", "0">>]

Servers == {GoodServer, BadPortServer}

PollIntervals == {0, 5}

DeviceTypes == {"owl", "bogus"}

NoBody == [command_id |-> 0, polling_interval |-> 0, server |-> BadPortServer]

\* The responses the start call can get when the API would grant command id n.
StartResponses(n) ==
    {[transportErr |-> TRUE, status |-> 0, decodable |-> FALSE, body |-> NoBody],
     [transportErr |-> FALSE, status |-> 500, decodable |-> FALSE, body |-> NoBody],
     [transportErr |-> FALSE, status |-> HTTP_OK, decodable |-> FALSE, body |-> NoBody],
     [transportErr |-> FALSE, status |-> HTTP_OK, decodable |-> TRUE, body |-> NoBody]}
    \cup
    {[transportErr |-> FALSE, status |-> HTTP_OK, decodable |-> TRUE,
      body |-> [command_id |-> n, polling_interval |-> i, server |-> sv]] :
        i \in PollIntervals, sv \in Servers}

CommandResponses ==
    {[transportErr |-> TRUE, status |-> 0, decodable |-> FALSE, code |-> 0, complete |-> FALSE],
     [transportErr |-> FALSE, status |-> 500, decodable |-> FALSE, code |-> 0, complete |-> FALSE],
     [transportErr |-> FALSE, status |-> HTTP_OK, decodable |-> FALSE, code |-> 0, complete |-> FALSE]}
    \cup
    {[transportErr |-> FALSE, status |-> HTTP_OK, decodable |-> TRUE, code |-> c, complete |-> b] :
        c \in {STOPPED_CODE, 900}, b \in BOOLEAN}

\* CreateLiveViewURI: an error for a device type outside the known families.
CreateLiveViewURI(dt) ==
    IF dt \in {"camera", "owl", "hawk", "doorbell", "lotus"} THEN "nil" ELSE "unknown device type"

\* InitiateLiveView on response r.  `resp.StatusCode` is read before `err` is
\* looked at, and resp is nil on a transport error: a nil dereference.
InitiateLiveView(dt, r) ==
    IF CreateLiveViewURI(dt) # "nil" THEN "error getting liveview path"
    ELSE IF r.transportErr THEN "panic"
    ELSE IF r.status # HTTP_OK THEN "error from API"
    ELSE IF ~r.decodable THEN "unmarshal error"
    ELSE IF r.body.command_id = 0 THEN "error sending liveview command"
    ELSE "nil"

\* StopCommand without the test of the decoded code.
StopCommand_AnyCode(r) ==
    IF r.transportErr THEN "panic"
    ELSE IF r.status # HTTP_OK THEN "cannot stop command (status)"
    ELSE IF ~r.decodable THEN "unmarshal error"
    ELSE "nil"

\* StopCommand on response r (same nil dereference on a transport error).
StopCommand(r) ==
    IF r.transportErr THEN "panic"
    ELSE IF r.status # HTTP_OK THEN "cannot stop command (status)"
    ELSE IF ~r.decodable THEN "unmarshal error"
    ELSE IF r.code # STOPPED_CODE THEN "cannot stop command (code)"
    ELSE "nil"

\* PollOnce without the test of the completion flag.
PollOnce_IgnoresComplete(r) ==
    IF r.transportErr THEN "panic"
    ELSE IF r.status # HTTP_OK THEN "error polling command"
    ELSE IF ~r.decodable THEN "unmarshal error"
    ELSE "continue"

\* One tick of PollCommand on response r: "continue" polls again.
PollOnce(r) ==
    IF r.transportErr THEN "panic"
    ELSE IF r.status # HTTP_OK THEN "error polling command"
    ELSE IF ~r.decodable THEN "unmarshal error"
    ELSE IF r.complete THEN "command marked as complete"
    ELSE "continue"

\* ------------------------------------------------------------------- state
VARIABLES
    deviceType,     \* credentials.DeviceType, fixed by NewClient
    connected,      \* state.connected
    lvCommandId,    \* state.lvCommandId
    streamContext,  \* state.streamContext: 0 is nil, s the context of session s
    streamCancel,   \* state.streamCancel: 0 is nil, s cancels the context of session s
    crashed,        \* a goroutine panicked: the process is gone
    nStarted,       \* sessions granted by the API so far
    cancelled,      \* contexts whose cancel function has been called
    pc,             \* position of every caller and stream goroutine
    ret,            \* what each caller's last Connect/Disconnect returned, and where
    dsess,          \* the context a running Disconnect cancelled (0: none)
    torn,           \* contexts whose cancelling Disconnect has returned
    pollPc,         \* position of each session's PollCommand goroutine
    pollInterval,   \* pollInterval argument of each PollCommand
    desc,           \* connection descriptor each stream goroutine captured
    conn,           \* TLS session of each Stream call: none / open / closed
    wire,           \* handshake blocks written to each TLS session, in order
    readTimeout,    \* Stream's readTimeout variable
    readIssued,     \* whether Stream has called client.Read
    result,         \* what each Stream call returned
    stopCalls,      \* number of stop-session requests sent per command id
    now,            \* the clock time.Now() reads, in units of the ping interval
    start,          \* Stream's `start` variable
    opened,         \* the value `start` got when the TLS session opened
    input,          \* the arguments of a call of one adapter/protocol function alone
    output          \* what that call returned

clientState == <<connected, lvCommandId, streamContext, streamCancel>>
pollVars == <<pollPc, pollInterval>>
streamVars == <<desc, conn, wire, readTimeout, readIssued, result, start, opened>>
pureVars == <<input, output>>
\* What no step of the client, of a poll or of a stream changes.
fixedVars == <<pureVars, now, deviceType>>
vars == <<deviceType, connected, lvCommandId, streamContext, streamCancel, crashed,
          nStarted, cancelled, pc, ret, dsess, torn, pollPc, pollInterval, desc,
          conn, wire, readTimeout, readIssued, result, stopCalls, now, start, opened,
          input, output>>

NoRet == [op |-> "none", err |-> "none", line |-> 0]
NoInput == [fn |-> "none"]
NoOutput == [fn |-> "none"]

\* NewClient
ClientInit ==
    /\ deviceType \in DeviceTypes
    /\ connected = FALSE
    /\ lvCommandId = 0
    /\ streamContext = 0
    /\ streamCancel = 0
    /\ crashed = FALSE
    /\ nStarted = 0
    /\ cancelled = {}
    /\ pc = [t \in Threads |-> IF t \in Callers THEN "idle" ELSE "none"]
    /\ ret = [t \in Callers |-> NoRet]
    /\ dsess = [t \in Threads |-> 0]
    /\ torn = {}
    /\ pollPc = [s \in Sessions |-> "none"]
    /\ pollInterval = [s \in Sessions |-> 0]
    /\ desc = [s \in Sessions |-> NoDescriptor]
    /\ conn = [s \in Sessions |-> "none"]
    /\ wire = [s \in Sessions |-> <<>>]
    /\ readTimeout = [s \in Sessions |-> 0]
    /\ readIssued = [s \in Sessions |-> FALSE]
    /\ result = [s \in Sessions |-> "none"]
    /\ stopCalls = [c \in 0..MaxSessions |-> 0]
    /\ now = 0
    /\ start = [s \in Sessions |-> 0]
    /\ opened = [s \in Sessions |-> 0]

Init ==
    /\ ClientInit
    /\ input = NoInput
    /\ output = NoOutput

\* A return statement of Connect or Disconnect executed by t.  A caller gets
\* the value; the stream goroutine drops it and ends.
Return(t, op, err, line) ==
    /\ pc' = [pc EXCEPT ![t] = IF t \in Callers THEN "idle" ELSE "exit"]
    /\ ret' = IF t \in Callers
              THEN [ret EXCEPT ![t] = [op |-> op, err |-> err, line |-> line]]
              ELSE ret

\* A panic in goroutine t at the statement `at`: nothing recovers it.
Panic(t, at) ==
    /\ crashed' = TRUE
    /\ pc' = [pc EXCEPT ![t] = at]

\* ----------------------------------------------------------------- Connect
\* A caller enters Connect.
CallConnect(t) ==
    /\ ~crashed
    /\ t \in Callers
    /\ pc[t] = "idle"
    /\ pc' = [pc EXCEPT ![t] = "c81"]
    /\ ret' = [ret EXCEPT ![t] = NoRet]
    /\ UNCHANGED <<fixedVars, clientState, crashed, nStarted, cancelled, dsess, torn,
                   pollVars, streamVars, stopCalls>>

\* ConnectGuard without the test of line 81.
ConnectGuard_NoTest(t) ==
    /\ ~crashed
    /\ pc[t] = "c81"
    /\ pc' = [pc EXCEPT ![t] = "c85"]
    /\ UNCHANGED <<fixedVars, clientState, crashed, nStarted, cancelled, ret, dsess, torn,
                   pollVars, streamVars, stopCalls>>

\* liveview.go:81-83: the already-connected guard.
ConnectGuard(t) ==
    /\ ~crashed
    /\ pc[t] = "c81"
    /\ IF connected
       THEN Return(t, "Connect", "client is already connected", 82)
       ELSE /\ pc' = [pc EXCEPT ![t] = "c85"]
            /\ ret' = ret
    /\ UNCHANGED <<fixedVars, clientState, crashed, nStarted, cancelled, dsess, torn,
                   pollVars, streamVars, stopCalls>>

\* liveview.go:85-124 once the start call has come back with r: the error
\* return, or the new scope, command id and connected flag, the poll
\* goroutine, the parse of the connection string and the stream goroutine.
ConnectStart(t, r) ==
    LET out == InitiateLiveView(deviceType, r)
        s == nStarted + 1
        d == ParseConnectionString(r.body.server)
    IN
    /\ ~crashed
    /\ pc[t] = "c85"
    /\ out = "nil" => nStarted < MaxSessions
    /\ CASE out = "panic" ->
              /\ Panic(t, "panic85")
              /\ UNCHANGED <<clientState, nStarted, ret, pollVars, streamVars>>
         [] out \notin {"panic", "nil"} ->
              /\ Return(t, "Connect", out, 87)
              /\ UNCHANGED <<clientState, crashed, nStarted, pollVars, streamVars>>
         [] out = "nil" ->
              /\ streamContext' = s
              /\ streamCancel' = s
              /\ lvCommandId' = r.body.command_id
              /\ connected' = TRUE
              /\ nStarted' = s
              /\ pollPc' = [pollPc EXCEPT ![s] = "start"]
              /\ pollInterval' = [pollInterval EXCEPT ![s] = r.body.polling_interval]
              /\ crashed' = crashed
              /\ IF d.err # "nil"
                 THEN /\ Return(t, "Connect", "parsing connection string", 98)
                      /\ UNCHANGED streamVars
                 ELSE /\ desc' = [desc EXCEPT ![s] = d]
                      /\ pc' = [pc EXCEPT ![t] = "idle", ![<<"stream", s>>] = "dial"]
                      /\ ret' = [ret EXCEPT ![t] = [op |-> "Connect", err |-> "nil", line |-> 124]]
                      /\ UNCHANGED <<conn, wire, readTimeout, readIssued, result, start, opened>>
    /\ UNCHANGED <<fixedVars, cancelled, dsess, torn, stopCalls>>

\* -------------------------------------------------------------- Disconnect
\* A caller enters Disconnect.
CallDisconnect(t) ==
    /\ ~crashed
    /\ t \in Callers
    /\ pc[t] = "idle"
    /\ pc' = [pc EXCEPT ![t] = "d129"]
    /\ ret' = [ret EXCEPT ![t] = NoRet]
    /\ UNCHANGED <<fixedVars, clientState, crashed, nStarted, cancelled, dsess, torn,
                   pollVars, streamVars, stopCalls>>

\* DisconnectGuard without the test of line 129.
DisconnectGuard_NoTest(t) ==
    /\ ~crashed
    /\ pc[t] = "d129"
    /\ pc' = [pc EXCEPT ![t] = "d133"]
    /\ UNCHANGED <<fixedVars, clientState, crashed, nStarted, cancelled, ret, dsess, torn,
                   pollVars, streamVars, stopCalls>>

\* liveview.go:129-131: a no-op on a client that is not connected.
DisconnectGuard(t) ==
    /\ ~crashed
    /\ pc[t] = "d129"
    /\ IF ~connected
       THEN Return(t, "Disconnect", "nil", 130)
       ELSE /\ pc' = [pc EXCEPT ![t] = "d133"]
            /\ ret' = ret
    /\ UNCHANGED <<fixedVars, clientState, crashed, nStarted, cancelled, dsess, torn,
                   pollVars, streamVars, stopCalls>>

\* liveview.go:133: c.state.streamCancel(); calling a nil func panics.
DisconnectCancel(t) ==
    /\ ~crashed
    /\ pc[t] = "d133"
    /\ IF streamCancel = 0
       THEN /\ Panic(t, "panic133")
            /\ UNCHANGED <<cancelled, dsess>>
       ELSE /\ cancelled' = cancelled \cup {streamCancel}
            /\ dsess' = [dsess EXCEPT ![t] = streamCancel]
            /\ pc' = [pc EXCEPT ![t] = "d134"]
            /\ crashed' = crashed
    /\ UNCHANGED <<fixedVars, clientState, nStarted, ret, torn, pollVars, streamVars,
                   stopCalls>>

\* liveview.go:134
DisconnectMark(t) ==
    /\ ~crashed
    /\ pc[t] = "d134"
    /\ connected' = FALSE
    /\ pc' = [pc EXCEPT ![t] = "d136"]
    /\ UNCHANGED <<fixedVars, lvCommandId, streamContext, streamCancel, crashed, nStarted,
                   cancelled, ret, dsess, torn, pollVars, streamVars, stopCalls>>

\* liveview.go:136-138: the stop call on the stored command id comes back
\* with r; an error is logged and dropped.
DisconnectStop(t, r) ==
    /\ ~crashed
    /\ pc[t] = "d136"
    /\ stopCalls' = [stopCalls EXCEPT ![lvCommandId] = @ + 1]
    /\ IF StopCommand(r) = "panic"
       THEN Panic(t, "panic136")
       ELSE /\ pc' = [pc EXCEPT ![t] = "d140"]
            /\ crashed' = crashed
    /\ UNCHANGED <<fixedVars, clientState, nStarted, cancelled, ret, dsess, torn,
                   pollVars, streamVars>>

\* liveview.go:140-144
DisconnectClear(t) ==
    /\ ~crashed
    /\ pc[t] = "d140"
    /\ streamContext' = 0
    /\ streamCancel' = 0
    /\ lvCommandId' = 0
    /\ torn' = torn \cup {dsess[t]}
    /\ dsess' = [dsess EXCEPT ![t] = 0]
    /\ Return(t, "Disconnect", "nil", 144)
    /\ UNCHANGED <<fixedVars, connected, crashed, nStarted, cancelled, pollVars,
                   streamVars, stopCalls>>

\* ------------------------------------------------------------- PollCommand
\* blink.go:136: time.NewTicker panics on a non-positive interval.
PollStart(s) ==
    /\ ~crashed
    /\ pollPc[s] = "start"
    /\ IF pollInterval[s] <= 0
       THEN /\ crashed' = TRUE
            /\ pollPc' = [pollPc EXCEPT ![s] = "panic"]
       ELSE /\ crashed' = crashed
            /\ pollPc' = [pollPc EXCEPT ![s] = "select"]
    /\ UNCHANGED <<fixedVars, clientState, nStarted, cancelled, pc, ret, dsess, torn,
                   pollInterval, streamVars, stopCalls>>

\* blink.go:146-147: the select takes the Done case.
PollCancelled(s) ==
    /\ ~crashed
    /\ pollPc[s] = "select"
    /\ s \in cancelled
    /\ pollPc' = [pollPc EXCEPT ![s] = "ret_nil"]
    /\ UNCHANGED <<fixedVars, clientState, crashed, nStarted, cancelled, pc, ret, dsess,
                   torn, pollInterval, streamVars, stopCalls>>

\* blink.go:148-176: the select takes the ticker case (it may, even when Done
\* is ready too) and the GET comes back with r.
PollTick(s, r) ==
    /\ ~crashed
    /\ pollPc[s] = "select"
    /\ crashed' = (PollOnce(r) = "panic")
    /\ pollPc' = [pollPc EXCEPT ![s] =
                     CASE PollOnce(r) = "panic" -> "panic"
                       [] PollOnce(r) = "continue" -> "select"
                       [] OTHER -> "ret_err"]
    /\ UNCHANGED <<fixedVars, clientState, nStarted, cancelled, pc, ret, dsess, torn,
                   pollInterval, streamVars, stopCalls>>

\* ------------------------------------------------------------------ Stream
G(s) == <<"stream", s>>

\* StreamReturn without the deferred client.Close().
StreamReturn_LeavesOpen(s, err) ==
    /\ result' = [result EXCEPT ![s] = err]
    /\ conn' = conn
    /\ pc' = [pc EXCEPT ![G(s)] = "returned"]

\* Stream returns `err`; the deferred client.Close() has run when there was
\* a TLS session.
StreamReturn(s, err) ==
    /\ result' = [result EXCEPT ![s] = err]
    /\ conn' = [conn EXCEPT ![s] = IF conn[s] = "open" THEN "closed" ELSE conn[s]]
    /\ pc' = [pc EXCEPT ![G(s)] = "returned"]

\* transport: tls.Dial, then start := time.Now() (part_001:159-172)
StreamDial(s, ok) ==
    /\ ~crashed
    /\ pc[G(s)] = "dial"
    /\ IF ok
       THEN /\ conn' = [conn EXCEPT ![s] = "open"]
            /\ start' = [start EXCEPT ![s] = now]
            /\ opened' = [opened EXCEPT ![s] = now]
            /\ pc' = [pc EXCEPT ![G(s)] = "onconnect"]
            /\ result' = result
       ELSE /\ StreamReturn(s, "unable to initialize stream")
            /\ UNCHANGED <<start, opened>>
    /\ UNCHANGED <<fixedVars, clientState, crashed, nStarted, cancelled, ret, dsess, torn,
                   pollVars, desc, wire, readTimeout, readIssued, stopCalls>>

\* transport: config.OnConnect, entering SendAuthFrames: SetWriteDeadline
\* (part_001:173, 83-85)
StreamOnConnect(s, ok) ==
    /\ ~crashed
    /\ pc[G(s)] = "onconnect"
    /\ IF ok
       THEN /\ pc' = [pc EXCEPT ![G(s)] = "write"]
            /\ UNCHANGED <<conn, result>>
       ELSE StreamReturn(s, "error on connect")
    /\ UNCHANGED <<fixedVars, clientState, crashed, nStarted, cancelled, ret, dsess, torn,
                   pollVars, desc, wire, readTimeout, readIssued, stopCalls, start, opened>>

\* NextAuthFrame sending the client id ahead of the first header.
NextAuthFrame_Swapped(s, written) ==
    GenerateAuthFrames(desc[s].connId, desc[s].clientId)
        [IF written = 0 THEN 2 ELSE IF written = 1 THEN 1 ELSE written + 1]

\* The frame SendAuthFrames writes after `written` frames have gone out.
NextAuthFrame(s, written) ==
    GenerateAuthFrames(desc[s].connId, desc[s].clientId)[written + 1]

\* SendAuthFrames: one client.Write of the loop over the frames
\* (part_001:87-94); after the last one Stream sets up its loop (177-179).
StreamWriteFrame(s, ok) ==
    LET frames == GenerateAuthFrames(desc[s].connId, desc[s].clientId)
        n == Len(wire[s])
    IN
    /\ ~crashed
    /\ pc[G(s)] = "write"
    /\ IF ok
       THEN /\ wire' = [wire EXCEPT ![s] = Append(@, NextAuthFrame(s, n))]
            /\ IF n + 1 = Len(frames)
               THEN /\ pc' = [pc EXCEPT ![G(s)] = "select"]
                    /\ readTimeout' = [readTimeout EXCEPT ![s] = CONNECT_TIMEOUT]
               ELSE UNCHANGED <<pc, readTimeout>>
            /\ UNCHANGED <<conn, result>>
       ELSE /\ StreamReturn(s, "error on connect")
            /\ UNCHANGED <<wire, readTimeout>>
    /\ UNCHANGED <<fixedVars, clientState, crashed, nStarted, cancelled, ret, dsess, torn,
                   pollVars, desc, readIssued, stopCalls, start, opened>>

\* StreamSelect with no Done case in its select.
StreamSelect_IgnoresCancel(s, deadlineOk) ==
    /\ ~crashed
    /\ pc[G(s)] = "select"
    /\ IF ~deadlineOk
       THEN StreamReturn(s, "error setting read deadline")
       ELSE /\ pc' = [pc EXCEPT ![G(s)] = "read"]
            /\ UNCHANGED <<conn, result>>
    /\ UNCHANGED <<fixedVars, clientState, crashed, nStarted, cancelled, ret, dsess, torn,
                   pollVars, desc, wire, readTimeout, readIssued, stopCalls, start, opened>>

\* StreamSelect reporting the cancellation as an error.
StreamSelect_CancelIsError(s, deadlineOk) ==
    /\ ~crashed
    /\ pc[G(s)] = "select"
    /\ IF s \in cancelled
       THEN StreamReturn(s, "context canceled")
       ELSE IF ~deadlineOk
            THEN StreamReturn(s, "error setting read deadline")
            ELSE /\ pc' = [pc EXCEPT ![G(s)] = "read"]
                 /\ UNCHANGED <<conn, result>>
    /\ UNCHANGED <<fixedVars, clientState, crashed, nStarted, cancelled, ret, dsess, torn,
                   pollVars, desc, wire, readTimeout, readIssued, stopCalls, start, opened>>

\* Top of the read loop (part_001:181-190): leave on a cancelled context,
\* else set the read deadline and go on to the read.
StreamSelect(s, deadlineOk) ==
    /\ ~crashed
    /\ pc[G(s)] = "select"
    /\ IF s \in cancelled
       THEN StreamReturn(s, "nil")
       ELSE IF ~deadlineOk
            THEN StreamReturn(s, "error setting read deadline")
            ELSE /\ pc' = [pc EXCEPT ![G(s)] = "read"]
                 /\ UNCHANGED <<conn, result>>
    /\ UNCHANGED <<fixedVars, clientState, crashed, nStarted, cancelled, ret, dsess, torn,
                   pollVars, desc, wire, readTimeout, readIssued, stopCalls, start, opened>>

ReadOutcomes == {"data", "eof", "reset", "timeout", "other"}

ReadError(o) ==
    CASE o = "eof" -> "connection closed gracefully by peer"
      [] o = "reset" -> "connection reset by peer"
      [] o = "timeout" -> "read timeout"
      [] OTHER -> "error reading from server"

\* client.Read comes back (part_001:192-204)
StreamRead(s, o) ==
    /\ ~crashed
    /\ pc[G(s)] = "read"
    /\ readIssued' = [readIssued EXCEPT ![s] = TRUE]
    /\ IF o = "data"
       THEN /\ pc' = [pc EXCEPT ![G(s)] = "sink"]
            /\ UNCHANGED <<conn, result>>
       ELSE StreamReturn(s, ReadError(o))
    /\ UNCHANGED <<fixedVars, clientState, crashed, nStarted, cancelled, ret, dsess, torn,
                   pollVars, desc, wire, readTimeout, stopCalls, start, opened>>

\* config.Writer.Write, then the ping test (part_001:206-223); `due` is
\* time.Since(start) > config.PingInterval.
StreamSink(s, ok, due) ==
    /\ ~crashed
    /\ pc[G(s)] = "sink"
    /\ IF ~ok
       THEN /\ StreamReturn(s, "error writing to writer")
            /\ UNCHANGED readTimeout
       ELSE IF due
            THEN /\ pc' = [pc EXCEPT ![G(s)] = "ping"]
                 /\ UNCHANGED <<conn, result, readTimeout>>
            ELSE /\ pc' = [pc EXCEPT ![G(s)] = "select"]
                 /\ readTimeout' = [readTimeout EXCEPT ![s] = FIXED_READ_TIMEOUT]
                 /\ UNCHANGED <<conn, result>>
    /\ UNCHANGED <<fixedVars, clientState, crashed, nStarted, cancelled, ret, dsess, torn,
                   pollVars, desc, wire, readIssued, stopCalls, start, opened>>

\* StreamPing that goes back to the top of the loop straight after the ping,
\* past the assignment of line 223.
StreamPing_SkipsTimeout(s, ok) ==
    /\ ~crashed
    /\ pc[G(s)] = "ping"
    /\ IF ok
       THEN /\ pc' = [pc EXCEPT ![G(s)] = "select"]
            /\ start' = [start EXCEPT ![s] = now]
            /\ UNCHANGED <<conn, result, readTimeout>>
       ELSE /\ StreamReturn(s, "error sending keep-alive")
            /\ UNCHANGED <<readTimeout, start>>
    /\ UNCHANGED <<fixedVars, clientState, crashed, nStarted, cancelled, ret, dsess, torn,
                   pollVars, desc, wire, readIssued, stopCalls, opened>>

\* config.OnPing = SendPing, then start = time.Now() (part_001:102-112,
\* 213-223)
StreamPing(s, ok) ==
    /\ ~crashed
    /\ pc[G(s)] = "ping"
    /\ IF ok
       THEN /\ pc' = [pc EXCEPT ![G(s)] = "select"]
            /\ readTimeout' = [readTimeout EXCEPT ![s] = FIXED_READ_TIMEOUT]
            /\ start' = [start EXCEPT ![s] = now]
            /\ UNCHANGED <<conn, result>>
       ELSE /\ StreamReturn(s, "error sending keep-alive")
            /\ UNCHANGED <<readTimeout, start>>
    /\ UNCHANGED <<fixedVars, clientState, crashed, nStarted, cancelled, ret, dsess, torn,
                   pollVars, desc, wire, readIssued, stopCalls, opened>>

\* liveview.go:116-121: Stream has returned; the goroutine reports an error
\* and calls c.Disconnect().  Stream's frame (err, readTimeout, what it wrote
\* and read on the session it has closed) is gone by then.
StreamEnd(s) ==
    /\ ~crashed
    /\ pc[G(s)] = "returned"
    /\ pc' = [pc EXCEPT ![G(s)] = "d129"]
    /\ result' = [result EXCEPT ![s] = "none"]
    /\ wire' = [wire EXCEPT ![s] = <<>>]
    /\ readTimeout' = [readTimeout EXCEPT ![s] = 0]
    /\ readIssued' = [readIssued EXCEPT ![s] = FALSE]
    /\ start' = [start EXCEPT ![s] = 0]
    /\ opened' = [opened EXCEPT ![s] = 0]
    /\ UNCHANGED <<fixedVars, clientState, crashed, nStarted, cancelled, ret, dsess, torn,
                   pollVars, desc, conn, stopCalls>>

\* ------------------------------------------------------------ specification
CallerStep(t) ==
    \/ CallConnect(t)
    \/ CallDisconnect(t)

ConnectStep(t) ==
    \/ ConnectGuard(t)
    \/ \E r \in StartResponses(nStarted + 1) : ConnectStart(t, r)

DisconnectStep(t) ==
    \/ DisconnectGuard(t)
    \/ DisconnectCancel(t)
    \/ DisconnectMark(t)
    \/ \E r \in CommandResponses : DisconnectStop(t, r)
    \/ DisconnectClear(t)

PollStep(s) ==
    \/ PollStart(s)
    \/ PollCancelled(s)
    \/ \E r \in CommandResponses : PollTick(s, r)

StreamStep(s) ==
    \/ \E ok \in BOOLEAN : StreamDial(s, ok)
    \/ \E ok \in BOOLEAN : StreamOnConnect(s, ok)
    \/ \E ok \in BOOLEAN : StreamWriteFrame(s, ok)
    \/ \E ok \in BOOLEAN : StreamSelect(s, ok)
    \/ \E o \in ReadOutcomes : StreamRead(s, o)
    \/ \E ok \in BOOLEAN, due \in BOOLEAN : StreamSink(s, ok, due)
    \/ \E ok \in BOOLEAN : StreamPing(s, ok)
    \/ StreamEnd(s)

Next ==
    \/ \E t \in Callers : CallerStep(t)
    \/ \E t \in Callers : ConnectStep(t)
    \/ \E t \in Threads : DisconnectStep(t)
    \/ \E s \in Sessions : PollStep(s)
    \/ \E s \in Sessions : StreamStep(s)

Spec == Init /\ [][Next]_vars

\* Fairness: a goroutine that can take a step takes it (every network call
\* of the adapter has a timeout).  Callers are free never to call again.
Fairness ==
    /\ \A t \in Callers : WF_vars(ConnectStep(t))
    /\ \A t \in Threads : WF_vars(DisconnectStep(t))
    /\ \A s \in Sessions : WF_vars(PollStep(s))
    /\ \A s \in Sessions : WF_vars(StreamStep(s))

FairSpec == Spec /\ Fairness

\* ------------------------------------------------- one Stream call, with time
\* Spec leaves the clock at 0 and lets the ping test of Stream go either way.
\* StreamSpec follows one call of transport.Stream with the clock running:
\* the call liveview.go:115-117 makes for the first session, whose scope the
\* client may cancel at any moment.
MaxTime == 4

\* liveview.go:103, in seconds like the clock
PING_INTERVAL == 1

\* PingDue with >= for >.
PingDue_AtInterval(s) == now - start[s] >= PING_INTERVAL

\* part_001:212: time.Since(start) > config.PingInterval
PingDue(s) == now - start[s] > PING_INTERVAL

\* The state Connect leaves when it has launched the stream goroutine of the
\* first session (liveview.go:90-124).
SessionLaunched ==
    /\ deviceType = "owl"
    /\ connected = TRUE
    /\ lvCommandId = 1
    /\ streamContext = 1
    /\ streamCancel = 1
    /\ crashed = FALSE
    /\ nStarted = 1
    /\ cancelled = {}
    /\ pc = [t \in Threads |-> IF t \in Callers THEN "idle"
                                ELSE IF t = G(1) THEN "dial" ELSE "none"]
    /\ ret = [t \in Callers |-> [op |-> "Connect", err |-> "nil", line |-> 124]]
    /\ dsess = [t \in Threads |-> 0]
    /\ torn = {}
    /\ pollPc = [s \in Sessions |-> IF s = 1 THEN "start" ELSE "none"]
    /\ pollInterval = [s \in Sessions |-> IF s = 1 THEN 5 ELSE 0]
    /\ desc = [s \in Sessions |-> IF s = 1 THEN ParseConnectionString(GoodServer)
                                   ELSE NoDescriptor]
    /\ conn = [s \in Sessions |-> "none"]
    /\ wire = [s \in Sessions |-> <<>>]
    /\ readTimeout = [s \in Sessions |-> 0]
    /\ readIssued = [s \in Sessions |-> FALSE]
    /\ result = [s \in Sessions |-> "none"]
    /\ stopCalls = [c \in 0..MaxSessions |-> 0]
    /\ now = 0
    /\ start = [s \in Sessions |-> 0]
    /\ opened = [s \in Sessions |-> 0]

StreamInit ==
    /\ SessionLaunched
    /\ input = NoInput
    /\ output = NoOutput

\* A second passes.
Tick ==
    /\ now < MaxTime
    /\ now' = now + 1
    /\ UNCHANGED <<pureVars, deviceType, clientState, crashed, nStarted, cancelled, pc, ret,
                   dsess, torn, pollVars, streamVars, stopCalls>>

\* The owner of config.Ctx cancels it (liveview.go:133).
CancelContext(s) ==
    /\ s \notin cancelled
    /\ cancelled' = cancelled \cup {s}
    /\ UNCHANGED <<fixedVars, clientState, crashed, nStarted, pc, ret, dsess, torn,
                   pollVars, streamVars, stopCalls>>

\* The steps of Stream, the ping test reading the clock.
TimedStreamStep(s) ==
    \/ \E ok \in BOOLEAN : StreamDial(s, ok)
    \/ \E ok \in BOOLEAN : StreamOnConnect(s, ok)
    \/ \E ok \in BOOLEAN : StreamWriteFrame(s, ok)
    \/ \E ok \in BOOLEAN : StreamSelect(s, ok)
    \/ \E o \in ReadOutcomes : StreamRead(s, o)
    \/ \E ok \in BOOLEAN : StreamSink(s, ok, PingDue(s))
    \/ \E ok \in BOOLEAN : StreamPing(s, ok)

StreamNext ==
    \/ Tick
    \/ CancelContext(1)
    \/ TimedStreamStep(1)

StreamSpec == StreamInit /\ [][StreamNext]_vars

\* -------------------------------------------- the two activities of a session
\* SessionSpec runs the poll goroutine of the first session beside its
\* Stream call, both bound to the scope the client may cancel.
SessionNext ==
    \/ Tick
    \/ CancelContext(1)
    \/ PollStep(1)
    \/ TimedStreamStep(1)

SessionSpec == StreamInit /\ [][SessionNext]_vars

\* Both goroutines keep running, every call they block in comes back (the
\* adapter's HTTP calls, the reads and the handshake and ping writes carry a
\* timeout), and a select whose Done case stays ready takes it in the end:
\* the ticker case is ready only once per interval.
SessionFairness ==
    /\ WF_vars(PollStep(1))
    /\ WF_vars(PollCancelled(1))
    /\ WF_vars(TimedStreamStep(1))

FairSessionSpec == SessionSpec /\ SessionFairness

\* PollSpec is SessionSpec with the answer of the vendor API to the poll GET
\* held in `input`: the API gives that answer to every GET of the run.
PollInputs == {[fn |-> "PollCommand", resp |-> r] : r \in CommandResponses}

PollInit ==
    /\ SessionLaunched
    /\ input \in PollInputs
    /\ output = NoOutput

PollNext ==
    \/ Tick
    \/ CancelContext(1)
    \/ PollStart(1)
    \/ PollCancelled(1)
    \/ PollTick(1, input.resp)
    \/ TimedStreamStep(1)

PollSpec == PollInit /\ [][PollNext]_vars

\* The poll goroutine keeps running: its ticker fires every interval and the
\* GET comes back within its 10-second timeout, so a select that stays at
\* the top of the loop takes the ticker case in the end, and the Done case
\* once Done is ready.
PollFairness ==
    /\ WF_vars(PollStart(1))
    /\ WF_vars(PollCancelled(1))
    /\ WF_vars(PollTick(1, input.resp))

FairPollSpec == PollSpec /\ PollFairness

\* ------------------------------------- adapter and protocol functions alone
\* PureSpec calls StopCommand, ParseConnectionString or GenerateAuthFrames
\* once, on arguments drawn from the sets below, beside an idle client.
StopResponses ==
    CommandResponses
    \cup [transportErr : {FALSE}, status : {HTTP_OK, 201, 404}, decodable : BOOLEAN,
          code : {STOPPED_CODE, 900, 903, 0}, complete : {FALSE}]

BadUrl == [bad |-> TRUE, host |-> <<>>, port |-> <<>>, path |-> <<>>, client_id |-> <<>>]

\* Connection strings, as url.Parse splits them.
ParseInputs ==
    {BadUrl}
    \cup [bad : {FALSE},
          host : {<<>>, <<"h">>},
          port : {<<"4", "4", "3">>, <<"8", "0">>, <<"0", "4", "4", "3">>, <<>>},
          path : {<<>>,
                  <<"/", "l", "/", "A", "B", "C", "_", "1">>,
                  <<"/", "l", "/", "A", "B", "C">>,
                  <<"/", "l", "/", "_", "1">>,
                  <<"/", "l", "/", "A", "_">>,
                  <<"/", "A", "_", "1", "/", "x">>,
                  <<"/", "A", "_", "B", "_", "C">>,
                  <<"A", "_", "1", "/">>},
          client_id : {<<>>, <<"5", "5">>, <<"0">>, <<"0", "0">>, <<"0", "7">>, <<"x">>,
                       <<"5", "x">>, <<"+", "7">>, <<"-", "5">>, <<"-">>}]

ConnectionIds == {<<>>, <<"A">>, <<"A", "B", "C">>, <<"x", "-", "A">>}

\* Client ids over the range of a 32-bit int.
ClientIdValues ==
    {0, 1, 55, 255, 256, 65535, 65536, 16777215, 16777216, 305419896, 2147483647,
     0 - 1, 0 - 256, 0 - 2147483647}

PureInputs ==
    {[fn |-> "StopCommand", resp |-> r] : r \in StopResponses}
    \cup {[fn |-> "ParseConnectionString", server |-> sv] : sv \in ParseInputs}
    \cup {[fn |-> "GenerateAuthFrames", connectionId |-> c, clientId |-> n] :
             c \in ConnectionIds, n \in ClientIdValues}

PureInit ==
    /\ ClientInit
    /\ input \in PureInputs
    /\ output = NoOutput

PureUnchanged ==
    UNCHANGED <<input, now, deviceType, clientState, crashed, nStarted, cancelled, pc, ret,
                dsess, torn, pollVars, streamVars, stopCalls>>

ApplyStopCommand ==
    /\ input.fn = "StopCommand"
    /\ output = NoOutput
    /\ output' = [fn |-> input.fn, val |-> StopCommand(input.resp)]
    /\ PureUnchanged

ApplyParseConnectionString ==
    /\ input.fn = "ParseConnectionString"
    /\ output = NoOutput
    /\ output' = [fn |-> input.fn, val |-> ParseConnectionString(input.server)]
    /\ PureUnchanged

ApplyGenerateAuthFrames ==
    /\ input.fn = "GenerateAuthFrames"
    /\ output = NoOutput
    /\ output' = [fn |-> input.fn,
                  val |-> GenerateAuthFrames(input.connectionId, input.clientId)]
    /\ PureUnchanged

PureNext ==
    \/ ApplyStopCommand
    \/ ApplyParseConnectionString
    \/ ApplyGenerateAuthFrames

PureSpec == PureInit /\ [][PureNext]_vars

\* ---------------------------------------------------------------- vocabulary
InStream == {"dial", "onconnect", "write", "select", "read", "sink", "ping"}
StreamRunning(s) == pc[G(s)] \in InStream
StreamTerminated(s) == pc[G(s)] \notin InStream \cup {"none"}
PollRunning(s) == pollPc[s] \in {"start", "select"}
InDisconnect(t) == pc[t] \in {"d129", "d133", "d134", "d136", "d140"}
InConnect(t) == pc[t] \in {"c81", "c85"}

\* ------------------------------------------------------------------- claims
\* C1: a Connect that finds the client Connected returns the
\* already-connected error, does not go on to the start call, launches no
\* poll or stream goroutine and leaves connected, command id and scope as
\* they were.
C1_ConnectWhenConnected ==
    [][\A t \in Callers :
          (pc[t] = "c81" /\ pc'[t] # "c81" /\ connected) =>
              /\ pc'[t] = "idle"
              /\ ret'[t] = [op |-> "Connect", err |-> "client is already connected", line |-> 82]
              /\ nStarted' = nStarted
              /\ pollPc' = pollPc
              /\ \A s \in Sessions : pc'[G(s)] = pc[G(s)]
              /\ clientState' = clientState]_vars

C1_Witness ==
    \E t \in Callers : ret[t].line = 82 /\ connected /\ nStarted = 1

\* C2: a Connect that returns an error (start failure or parse failure)
\* leaves the client Disconnected.
C2_FailedConnectLeavesDisconnected ==
    [][\A t \in Callers :
          (pc[t] = "c85" /\ pc'[t] = "idle" /\ ret'[t].err # "nil") => ~connected']_vars

\* C3: two racing Disconnect executions tear the session down once: at most
\* one stop request per command id (none for the cleared id 0), no call of
\* the cancel function after it was cleared, and once a Disconnect of the
\* latest session has returned and nothing is in flight the state is clean.
C3_TeardownOnce ==
    /\ \A c \in 1..MaxSessions : stopCalls[c] <= 1
    /\ stopCalls[0] = 0
    /\ \A t \in Threads : pc[t] # "panic133"
    /\ (/\ nStarted \in torn
        /\ \A t \in Threads : ~InDisconnect(t) /\ ~InConnect(t))
       => (~connected /\ lvCommandId = 0 /\ streamContext = 0 /\ streamCancel = 0)

\* C4: at most one poll activity and at most one stream activity run at any
\* moment.
C4_OnePairAtATime ==
    /\ Cardinality({s \in Sessions : PollRunning(s)}) <= 1
    /\ Cardinality({s \in Sessions : StreamRunning(s)}) <= 1

\* C5: whenever a stream activity has terminated while the client is
\* Connected, the client eventually reaches connected = false.
C5_StreamEndDisconnects ==
    \A s \in Sessions : (pc[G(s)] = "returned" /\ connected) ~> ~connected

\* C6: whenever the poll activity of the current session, one whose Connect
\* succeeded, has terminated with an error while the client is Connected,
\* the client eventually reaches connected = false (a process that panics
\* meanwhile is not held against the claim here).
C6_PollErrorDisconnects ==
    \A s \in Sessions :
        (pollPc[s] = "ret_err" /\ desc[s].err = "nil" /\ connected /\ lvCommandId = s)
            ~> (~connected \/ crashed)

\* C7: a Disconnect that finds the client Disconnected returns nil, sends no
\* stop request, cancels nothing and leaves the client state as it was.
C7_DisconnectWhenDisconnected ==
    [][\A t \in Threads :
          (pc[t] = "d129" /\ pc'[t] # "d129" /\ ~connected) =>
              /\ t \in Callers =>
                    /\ pc'[t] = "idle"
                    /\ ret'[t] = [op |-> "Disconnect", err |-> "nil", line |-> 130]
              /\ t \notin Callers => pc'[t] = "exit"
              /\ stopCalls' = stopCalls
              /\ cancelled' = cancelled
              /\ crashed' = crashed
              /\ clientState' = clientState]_vars

C7_Witness ==
    \E t \in Callers : ret[t].line = 130 /\ nStarted = 1 /\ stopCalls[1] = 1

\* C8: whatever the stop call comes back with, Disconnect goes on, returns
\* nil and ends with connected = false, command id 0 and no scope.
C8_StopFailureSwallowed ==
    [][\A t \in Threads :
          /\ (pc[t] = "d136" /\ pc'[t] # "d136") => (pc'[t] = "d140" /\ ~crashed')
          /\ (pc[t] = "d140" /\ pc'[t] # "d140") =>
                /\ pc'[t] \in {"idle", "exit"}
                /\ t \in Callers => ret'[t].err = "nil"
                /\ ~connected'
                /\ lvCommandId' = 0
                /\ streamContext' = 0
                /\ streamCancel' = 0]_vars

\* C9: once the Disconnect that cancelled a session's scope has returned,
\* that session's stream has terminated and its TLS session is closed (so
\* nothing more is written to the sink).
C9_DisconnectStopsStream ==
    \A s \in torn : ~StreamRunning(s) /\ conn[s] # "open"

\* C10: what Stream has written to the TLS session is a prefix of the five
\* handshake blocks (24-byte header, 4-byte client id, 74-byte header,
\* connection id, 13-byte trailer), one block per write; a read is issued
\* only after all five; and a Stream whose handshake did not complete
\* returns an error without having read.
C10_HandshakeBeforeRead ==
    \A s \in Sessions :
        LET frames == GenerateAuthFrames(desc[s].connId, desc[s].clientId)
            n == Len(wire[s])
        IN /\ n <= 5
           /\ wire[s] = SubSeq(frames, 1, n)
           /\ \A k \in 1..n :
                 Len(wire[s][k]) = <<24, 4, 74, Len(desc[s].connId), 13>>[k]
           /\ (readIssued[s] \/ pc[G(s)] \in {"read", "sink", "ping"}) => n = 5
           /\ (pc[G(s)] = "returned" /\ conn[s] = "closed" /\ n < 5) =>
                 (~readIssued[s] /\ result[s] = "error on connect")

C10_Witness ==
    \E s \in Sessions : readIssued[s] /\ Len(wire[s]) = 5 /\ pc[G(s)] = "select"

C10_WitnessWriteFailed ==
    \E s \in Sessions : pc[G(s)] = "returned" /\ Len(wire[s]) = 3

\* C11: the read Stream is about to issue runs under the connect timeout when
\* it is the first read of the call and under the fixed 2-second timeout when
\* a read has been issued before, whatever the number of reads and whether
\* or not a ping went out since.
C11_ReadDeadlines ==
    \A s \in Sessions :
        pc[G(s)] = "read" =>
            readTimeout[s] = IF readIssued[s] THEN FIXED_READ_TIMEOUT ELSE CONNECT_TIMEOUT

\* A later read, after a ping has reset `start`.
C11_Witness ==
    /\ pc[G(1)] = "read"
    /\ readIssued[1]
    /\ start[1] > opened[1]
    /\ readTimeout[1] = FIXED_READ_TIMEOUT

\* C12: on an HTTP response, StopCommand returns nil exactly when the status
\* is 200, the body decodes and the decoded code is 902; on every other
\* response it returns an error.
C12_StopSuccessIffStopped ==
    (output.fn = "StopCommand" /\ ~input.resp.transportErr) =>
        /\ (output.val = "nil") <=>
              (/\ input.resp.status = 200
               /\ input.resp.decodable
               /\ input.resp.code = 902)
        /\ output.val # "nil" =>
              output.val \in {"cannot stop command (status)", "unmarshal error",
                              "cannot stop command (code)"}

\* Status 200 and a decoded code 900: the stop error.
C12_Witness ==
    /\ output.fn = "StopCommand"
    /\ input.resp.status = 200 /\ input.resp.decodable /\ input.resp.code = 900
    /\ output.val = "cannot stop command (code)"

\* C13: ParseConnectionString succeeds exactly when the URL parsed, the host
\* is non-empty, the port is 443, the part of the path after its last "/"
\* has a non-empty connection id before its first "_", and client_id parses
\* to an integer greater than 0; it then returns that host, 443, that integer
\* and that connection id, and otherwise an error with no descriptor.
C13_ParseIffWellFormed ==
    output.fn = "ParseConnectionString" =>
        LET sv == input.server
            d == output.val
            slashes == {i \in 1..Len(sv.path) : sv.path[i] = "/"}
            lastSlash == IF slashes = {} THEN 0
                         ELSE CHOOSE i \in slashes : \A j \in slashes : j <= i
            segment == SubSeq(sv.path, lastSlash + 1, Len(sv.path))
            marks == {i \in 1..Len(segment) : segment[i] = "_"}
            firstMark == IF marks = {} THEN 0
                         ELSE CHOOSE i \in marks : \A j \in marks : i <= j
            parsed == Atoi(sv.client_id)
            wellFormed == /\ ~sv.bad
                          /\ sv.host # <<>>
                          /\ sv.port = <<"4", "4", "3">>
                          /\ firstMark > 1
                          /\ ~parsed.err /\ parsed.val > 0
        IN /\ (d.err = "nil") <=> wellFormed
           /\ d.err = "nil" =>
                 d = [err |-> "nil", host |-> sv.host, port |-> <<"4", "4", "3">>,
                      clientId |-> parsed.val, connId |-> SubSeq(segment, 1, firstMark - 1)]
           /\ d.err # "nil" =>
                 (d.host = <<>> /\ d.port = <<>> /\ d.clientId = 0 /\ d.connId = <<>>)

\* C14: GenerateAuthFrames returns 5 blocks: a 24-byte block, the same for
\* all arguments; 4 bytes that read big-endian as the client id (as its
\* 32-bit two's complement when it is negative); a 74-byte block, the same
\* for all arguments; one byte per character of the connection id, in order;
\* and a 13-byte block, the same for all arguments.
C14_FiveBlocks ==
    output.fn = "GenerateAuthFrames" =>
        LET f == output.val
            n == input.clientId
            fixed == GenerateAuthFrames(<<>>, 0)
            b == f[2]
        IN /\ Len(f) = 5
           /\ Len(f[1]) = 24 /\ f[1] = fixed[1]
           /\ Len(b) = 4
           /\ \A k \in 1..4 : b[k] \in 0..255
           /\ n >= 0 =>
                 (b[1] < 128 /\ ((b[1] * 256 + b[2]) * 256 + b[3]) * 256 + b[4] = n)
           /\ n < 0 =>
                 /\ b[1] >= 128
                 /\ (((255 - b[1]) * 256 + (255 - b[2])) * 256 + (255 - b[3])) * 256
                       + (255 - b[4]) = (0 - n) - 1
           /\ Len(f[3]) = 74 /\ f[3] = fixed[3]
           /\ Len(f[4]) = Len(input.connectionId)
           /\ \A k \in 1..Len(f[4]) : f[4][k] = ByteOf(input.connectionId[k])
           /\ Len(f[5]) = 13 /\ f[5] = fixed[5]

\* Connection id "ABC" and client id 55.
C14_Witness ==
    /\ output.fn = "GenerateAuthFrames"
    /\ input.connectionId = <<"A", "B", "C">> /\ input.clientId = 55
    /\ output.val[2] = <<0, 0, 0, 55>>
    /\ output.val[4] = <<65, 66, 67>>

\* C15: once a caller's Disconnect of session s has returned (s is torn down,
\* so any later session comes from a Connect issued after it), the
\* Disconnect run by the stream goroutine of session s cancels no scope of a
\* later session, does not mark the client Disconnected while a later
\* session is the connected one, and sends no stop request for the command
\* id of a later session.
C15_StaleDisconnectSparesLaterSession ==
    [][\A s \in torn :
          /\ (pc[G(s)] = "d133" /\ pc'[G(s)] = "d134") => streamCancel <= s
          /\ (pc[G(s)] = "d134" /\ pc'[G(s)] = "d136" /\ connected) => nStarted <= s
          /\ (pc[G(s)] = "d136" /\ pc'[G(s)] # "d136") => lvCommandId <= s]_vars

\* C16: in every state in which no Connect or Disconnect is part-way through
\* (the states between two of their statements are left out, in the claim's
\* favour), connected implies that the stored command id is the non-zero id
\* of the latest start and that the scope and its cancel function are set
\* and not cancelled.
C16_ConnectedMeansLiveSession ==
    (connected /\ \A t \in Threads : ~InDisconnect(t) /\ ~InConnect(t)) =>
        /\ lvCommandId # 0
        /\ lvCommandId = nStarted
        /\ streamContext # 0
        /\ streamCancel # 0
        /\ streamContext \notin cancelled

C18_CancelledLoopReturnsNil ==
    [][\A s \in Sessions :
          (pc[G(s)] = "select" /\ s \in cancelled /\ pc'[G(s)] # "select") =>
              /\ pc'[G(s)] = "returned"
              /\ result'[s] = "nil"
              /\ conn'[s] = "closed"
              /\ readIssued'[s] = readIssued[s]
              /\ start'[s] = start[s]]_vars

\* The cancellation found at the start of a later iteration.
C18_Witness ==
    /\ 1 \in cancelled
    /\ pc[G(1)] = "returned" /\ result[1] = "nil" /\ readIssued[1]

\* C19: a Stream that has returned has no open TLS session: none when the
\* dial failed, a closed one on every other return.
C19_NoOpenSessionAfterReturn ==
    \A s \in Sessions :
        pc[G(s)] = "returned" =>
            /\ conn[s] # "open"
            /\ result[s] # "unable to initialize stream" => conn[s] = "closed"
            /\ result[s] = "unable to initialize stream" => conn[s] = "none"

\* A return on a failed ping, deep in the loop.
C19_Witness ==
    pc[G(1)] = "returned" /\ result[1] = "error sending keep-alive" /\ conn[1] = "closed"

\* C20: Stream goes from the sink write to the ping exactly when more than
\* the ping interval has passed since `start` (else back to the top of the
\* loop); a ping starts nowhere but after the sink write that follows a
\* read, so never during a read; `start` is set when the session opens and
\* set to the current time after each ping, and nowhere else.
C20_PingWhenDue ==
    [][\A s \in Sessions :
          /\ (pc[G(s)] = "sink" /\ pc'[G(s)] = "ping") => now - start[s] > 1
          /\ (pc[G(s)] = "sink" /\ pc'[G(s)] = "select") => now - start[s] <= 1
          /\ (pc[G(s)] # "ping" /\ pc'[G(s)] = "ping") => pc[G(s)] = "sink"
          /\ pc[G(s)] = "read" => pc'[G(s)] \in {"read", "sink", "returned"}
          /\ (pc[G(s)] = "ping" /\ pc'[G(s)] = "select") => start'[s] = now
          /\ start'[s] # start[s] =>
                \/ pc[G(s)] = "dial" /\ start'[s] = now
                \/ pc[G(s)] = "ping"]_vars

\* A ping that is due again after an earlier ping reset `start`.
C20_Witness ==
    pc[G(1)] = "ping" /\ start[1] > opened[1] /\ now - start[1] > 1

\* C21: PollCommand has returned nil only when the scope is cancelled; it
\* has returned an error only on a response that is not 200, does not decode
\* or has the completion flag set; on a 200 response with the flag false it
\* never returns an error; on a non-200 response or a set flag it does not
\* go on polling (it ends with the error, or with nil when it sees the scope
\* cancelled first); and once the scope is cancelled, a poll whose responses
\* let it go on returns nil.
C21_PollOutcome ==
    LET r == input.resp
        answered == ~r.transportErr
        goesOn == answered /\ r.status = 200 /\ r.decodable /\ ~r.complete
        fails == answered /\ (r.status # 200 \/ (r.decodable /\ r.complete))
    IN /\ [](pollPc[1] = "ret_nil" => 1 \in cancelled)
       /\ [](pollPc[1] = "ret_err" =>
                (answered /\ (r.status # 200 \/ ~r.decodable \/ r.complete)))
       /\ [](goesOn => pollPc[1] \notin {"ret_err", "panic"})
       /\ (pollPc[1] = "select" /\ fails) ~> (pollPc[1] \in {"ret_err", "ret_nil"})
       /\ (pollPc[1] = "select" /\ goesOn /\ 1 \in cancelled) ~> (pollPc[1] = "ret_nil")

\* A 200 response with the completion flag set has ended the poll with an
\* error, the scope not cancelled.
C21_Witness ==
    /\ pollPc[1] = "ret_err"
    /\ input.resp.status = 200 /\ input.resp.decodable /\ input.resp.complete
    /\ 1 \notin cancelled

\* C22: a Connect whose start call does not yield a session (transport
\* failure, non-200 status, undecodable body, command id 0, or no URI for
\* the device type) returns an error to its caller; the process does not
\* panic.
C22_StartFailureReturned ==
    [][\A t \in Callers :
          (pc[t] = "c85" /\ pc'[t] # "c85" /\ nStarted' = nStarted) =>
              /\ pc'[t] = "idle"
              /\ ret'[t].op = "Connect"
              /\ ret'[t].err \notin {"nil", "none"}
              /\ ~crashed']_vars

====
